---- MODULE Spec2Model ----
(***************************************************************************)
(* Polemarch: the v3 serializers (PeriodicTask normalisation inside one    *)
(* transaction, ExecutionTemplate creation, redaction of the ansible       *)
(* argument payloads) and the ACLPermission / UserSettings models.         *)
(*                                                                         *)
(* Each component has its own specification over the shared variables:     *)
(*   SpecPT    PeriodictaskSerializer writes   (serializers.py 130-211)    *)
(*   SpecET    CreateExecutionTemplateSerializer.create   (97-106)         *)
(*   SpecHide  BaseAnsibleArgumentsSerializer.to_representation (37-41)    *)
(*   SpecACL   ACLPermission                    (users.py 16-42)           *)
(*   SpecUS    UserSettings                     (users.py 51-70)           *)
(***************************************************************************)
EXTENDS Integers, Sequences, FiniteSets, TLC

VARIABLES
    \* ---- PeriodicTask (one row, id 1) ----
    db,        \* the committed row, or NoTask: what any reader sees
    pc,        \* "idle" | "tx" | "done" | "failed" | "rejected"
    req,       \* the request being served: [op, partial, data] or NoReq
    vd,        \* validated_data as validation produced it
    kw,        \* validated_data as _do_with_vars hands it to super()
    work,      \* the row as written inside the open transaction
    before,    \* the transaction's savepoint: the row when the block was entered
    \* ---- ExecutionTemplate creation ----
    etReq,     \* validated_data given to create(), or NoReq
    etOut,     \* validated_data as create() hands it to super().create()
    \* ---- redaction of an arguments payload ----
    hidden,    \* HiddenArgumentsEnum: the configured hidden argument names
    repIn,     \* what super().to_representation(instance) returned, or NoReq
    rep,       \* what to_representation returned
    \* ---- ACLPermission ----
    users,     \* ids of the users that exist
    groups,    \* ids of the user groups that exist
    perms,     \* the ACLPermission rows: pk -> row, NoRow for a free pk
    aclCall,   \* the last property setter called on a row
    \* ---- UserSettings (one row) ----
    settings,  \* the TextField: the blob, a string as the sequence of its characters
    usOp,      \* the last use of the data property that changed the row
    got        \* what the last get_settings_copy() returned, or NotRead

ptvars == <<db, pc, req, vd, kw, work, before>>
etvars == <<etReq, etOut>>
hidevars == <<hidden, repIn, rep>>
aclvars == <<users, groups, perms, aclCall>>
usvars == <<settings, usOp, got>>

vars == <<db, pc, req, vd, kw, work, before, etReq, etOut, hidden, repIn, rep,
          users, groups, perms, aclCall, settings, usOp, got>>

notPT == <<etvars, hidevars, aclvars, usvars>>
notET == <<ptvars, hidevars, aclvars, usvars>>
notHide == <<ptvars, etvars, aclvars, usvars>>
notACL == <<ptvars, etvars, hidevars, usvars>>
notUS == <<ptvars, etvars, hidevars, aclvars>>

(***************************************************************************)
(* PeriodicTask                                                            *)
(***************************************************************************)

\* A key that is not in a mapping (dict.get(key, None) is None).
Absent == "<absent>"

\* A null foreign key / NULL column.
Null == "<null>"

NoTask == [none |-> "task"]
NoReq == [none |-> "request"]

\* models.PeriodicTask.kinds and .types, in declaration order.
kinds == <<"PLAYBOOK", "MODULE", "TEMPLATE">>
types == <<"CRONTAB", "INTERVAL">>

\* Meta.fields of PeriodictaskSerializer that a client can write and that the
\* properties below speak about.
Fields == {"kind", "type", "mode", "template", "template_opt", "schedule",
           "inventory"}

Range(s) == {s[i] : i \in DOMAIN s}

\* What a client may submit for each field (Absent: the key is not sent).
Submitted(f) ==
    CASE f = "kind" -> Range(kinds) \cup {Absent}
      [] f = "type" -> Range(types) \cup {Absent}
      [] f = "mode" -> {"site.yml", Absent}
      [] f = "template" -> {"T1", Absent}
      [] f = "template_opt" -> {"opt", Absent}
      [] f = "schedule" -> {"10", Absent}
      [] f = "inventory" -> {"5", "", Absent}

Payloads ==
    {[kind |-> k, type |-> t, mode |-> m, template |-> tp, template_opt |-> to,
      schedule |-> s, inventory |-> i] :
        k \in Submitted("kind"), t \in Submitted("type"), m \in Submitted("mode"),
        tp \in Submitted("template"), to \in Submitted("template_opt"),
        s \in Submitted("schedule"), i \in Submitted("inventory")}

\* A field is required unless its declaration says required=False or gives a
\* default.  schedule (lines 160-162) is the one field declared with neither;
\* the defaults on lines 164-165 belong to its branches, not to the field.
required(f) == f = "schedule"

HasDefault(f) == f \in {"kind", "type"}

\* default=models.PeriodicTask.kinds[0] / types[0]  (Python index 0).
default(f) == IF f = "kind" THEN kinds[1] ELSE types[1]

\* Serializer.is_valid: a required field that is missing rejects the request,
\* except on a partial update, where missing fields are skipped.
is_valid(data, partial) ==
    partial \/ \A f \in Fields : required(f) => data[f] # Absent

\* Serializer.validated_data: the submitted fields; a missing field with a
\* default gets it unless the update is partial.  A value submitted for a
\* field whose branch is 'hidden' is kept: _do_with_vars overrides it, and a
\* payload without the field covers the case of its being dropped earlier.
validated_data(data, partial) ==
    [f \in Fields |->
        IF data[f] # Absent THEN data[f]
        ELSE IF ~partial /\ HasDefault(f) THEN default(f)
        ELSE Absent]

\* _do_with_vars with the mode assignment (line 209) left out.
do_with_vars_keeps_mode(validated) ==
    IF validated["kind"] = "TEMPLATE"
        THEN [validated EXCEPT !["inventory"] = ""]
        ELSE validated

\* _do_with_vars testing that kind is anything but the default (line 207).
do_with_vars_any_kind(validated) ==
    IF validated["kind"] \notin {Absent, "PLAYBOOK"}
        THEN [validated EXCEPT !["inventory"] = "", !["mode"] = ""]
        ELSE validated

\* PeriodictaskSerializer._do_with_vars, lines 206-210: the rewrite of
\* validated_data before super() persists it.
do_with_vars(validated) ==
    IF validated["kind"] = "TEMPLATE"
        THEN [validated EXCEPT !["inventory"] = "", !["mode"] = ""]
        ELSE validated

\* The column value of a field no write has set.
ModelDefault(f) ==
    CASE f = "kind" -> kinds[1]
      [] f = "type" -> types[1]
      [] f \in {"template", "template_opt"} -> Null
      [] OTHER -> ""

\* super()._do_with_vars for a create: a new row from the data it is handed.
PersistCreate(data) ==
    [f \in Fields |-> IF data[f] # Absent THEN data[f] ELSE ModelDefault(f)]

\* super()._do_with_vars for an update: only the keys present are written.
PersistUpdate(row, data) ==
    [f \in Fields |-> IF data[f] # Absent THEN data[f] ELSE row[f]]

\* A write that is not wrapped in a transaction: what was written stays.
Rollback_keeps_written(saved, written) == written

\* @transaction.atomic, line 204: leaving the block by an exception restores
\* the rows as they were when the block was entered.
Rollback(saved, written) == saved

\* @transaction.atomic, line 204: leaving the block normally publishes what
\* was written inside it.
CommitTx(saved, written) == written

Ops == {"create", "update", "partial_update"}

PTInit ==
    /\ db = NoTask
    /\ pc = "idle"
    /\ req = NoReq
    /\ vd = NoReq
    /\ kw = NoReq
    /\ work = NoTask
    /\ before = NoTask

ETInit ==
    /\ etReq = NoReq
    /\ etOut = NoReq

\* The names generate_fields produces for the arguments serializers.
MaxArgs == 3
AllArgNames == <<"password", "user", "private_key", "become_user">>
ArgNames ==
    {AllArgNames[i] : i \in 1..(IF MaxArgs < Len(AllArgNames) THEN MaxArgs
                                                              ELSE Len(AllArgNames))}

HideInit ==
    /\ hidden = {"password"}
    /\ repIn = NoReq
    /\ rep = NoReq

MaxPerms == 2
NoRow == [none |-> "row"]
None == [none |-> "None"]
AllUsers == {1, 2}
AllGroups == {1, 2}

ACLInit ==
    /\ users = AllUsers
    /\ groups = AllGroups
    /\ perms = [pk \in 1..MaxPerms |-> NoRow]
    /\ aclCall = None

NotRead == [none |-> "read"]

\* settings = models.TextField(default="{}"), line 52.
USInit ==
    /\ settings = <<"{", "}">>
    /\ usOp = [op |-> "new"]
    /\ got = NotRead

Init == PTInit /\ ETInit /\ HideInit /\ ACLInit /\ USInit

\* A request whose payload fails validation: nothing is written.
Reject ==
    /\ pc = "idle"
    /\ \E op \in Ops, data \in Payloads :
        /\ (op = "create") = (db = NoTask)
        /\ ~is_valid(data, op = "partial_update")
        /\ req' = [op |-> op, partial |-> (op = "partial_update"), data |-> data]
    /\ pc' = "rejected"
    /\ UNCHANGED <<db, vd, kw, work, before, notPT>>

\* serializer.save(): validation passed; _do_with_vars opens the transaction,
\* rewrites validated_data and calls super(), which writes the row inside the
\* transaction.  Readers still see db.
Save ==
    /\ pc = "idle"
    /\ \E op \in Ops, data \in Payloads :
        LET partial == (op = "partial_update")
            validated == validated_data(data, partial)
            handed == do_with_vars(validated)
        IN  /\ (op = "create") = (db = NoTask)
            /\ is_valid(data, partial)
            /\ req' = [op |-> op, partial |-> partial, data |-> data]
            /\ vd' = validated
            /\ kw' = handed
            /\ work' = IF op = "create" THEN PersistCreate(handed)
                                        ELSE PersistUpdate(db, handed)
    /\ before' = db
    /\ pc' = "tx"
    /\ UNCHANGED <<db, notPT>>

\* The atomic block ends normally.
Commit ==
    /\ pc = "tx"
    /\ db' = CommitTx(before, work)
    /\ pc' = "done"
    /\ UNCHANGED <<req, vd, kw, work, before, notPT>>

\* The persistence write raises inside the atomic block.
PersistFail ==
    /\ pc = "tx"
    /\ db' = Rollback(before, work)
    /\ pc' = "failed"
    /\ UNCHANGED <<req, vd, kw, work, before, notPT>>

\* The response is returned; the serializer and its data are dropped.
Return ==
    /\ pc \in {"done", "failed", "rejected"}
    /\ pc' = "idle"
    /\ req' = NoReq
    /\ vd' = NoReq
    /\ kw' = NoReq
    /\ work' = NoTask
    /\ before' = NoTask
    /\ UNCHANGED <<db, notPT>>

\* The task is destroyed.
Delete ==
    /\ pc = "idle"
    /\ db # NoTask
    /\ db' = NoTask
    /\ UNCHANGED <<pc, req, vd, kw, work, before, notPT>>

NextPT == Reject \/ Save \/ Commit \/ PersistFail \/ Return \/ Delete

SpecPT == Init /\ [][NextPT]_vars

\* The defaults the schedule branches declare, lines 164-165.
ScheduleDefault(type) == IF type = "CRONTAB" THEN "* * * * *" ELSE "0"

\* C1: a completed write whose submitted kind is TEMPLATE leaves the stored
\* row with inventory = "" and mode = "", whatever was submitted for them.
C1_TemplateWriteClears ==
    (pc = "done" /\ req.data.kind = "TEMPLATE")
        => (db.inventory = "" /\ db.mode = "")

C1_Witness ==
    /\ pc = "done"
    /\ req.data.kind = "TEMPLATE"
    /\ req.data.template = "T1"
    /\ req.data.inventory = "5"
    /\ req.data.mode = "site.yml"
    /\ before # NoTask
    /\ before.mode = "site.yml"

\* C2: in every reachable state (a write in progress or not), a stored
\* PeriodicTask of kind TEMPLATE has inventory = "" and mode = "".
C2_TemplateInvariant ==
    (db # NoTask /\ db.kind = "TEMPLATE")
        => (db.inventory = "" /\ db.mode = "")

\* C3: when the persistence write fails, the stored row is exactly the row
\* from before the write began, although the transaction had already written
\* the normalised row.
C3_FailedWriteRollsBack ==
    pc = "failed" => db = before

C3_Witness ==
    /\ pc = "failed"
    /\ before # NoTask
    /\ before.inventory = "5"
    /\ vd.kind = "TEMPLATE"
    /\ work.inventory = ""
    /\ work # before

\* C7: a write submitting type = CRONTAB (INTERVAL) and no schedule is not
\* rejected and stores the branch default "* * * * *" (0).
C7_ScheduleDefaults ==
    (/\ pc \in {"done", "rejected"}
     /\ req.data.type # Absent
     /\ req.data.schedule = Absent)
        => (pc = "done" /\ db.schedule = ScheduleDefault(req.data.type))

\* C10: the data handed to persistence equals the validated data in every
\* field unless the validated kind is TEMPLATE, and then differs from it in
\* inventory and mode at most.
C10_NormalizationFrame ==
    pc \in {"tx", "done", "failed"}
        => /\ vd.kind # "TEMPLATE" => kw = vd
           /\ \A f \in Fields \ {"inventory", "mode"} : kw[f] = vd[f]

C10_Witness ==
    /\ pc = "tx"
    /\ vd.kind = "TEMPLATE"
    /\ vd.template = "T1"
    /\ vd.template_opt = "opt"
    /\ vd.inventory = "5"
    /\ kw # vd
    /\ before # NoTask
    /\ before.kind = "MODULE"

(***************************************************************************)
(* ExecutionTemplate creation                                              *)
(***************************************************************************)

\* A Python dict is a function whose DOMAIN is its key set.
EmptyDict == [k \in {} |-> k]

Put(d, k, v) == [x \in DOMAIN d \cup {k} |-> IF x = k THEN v ELSE d[x]]

\* bool(d.get(k)) for a string value: a missing key and "" are both false.
TruthyStr(d, k) == k \in DOMAIN d /\ d[k] # ""

\* bool(d.get(k)) for a mapping value: a missing key and {} are both false.
TruthyDict(d, k) == k \in DOMAIN d /\ d[k] # EmptyDict

\* create() that copies the top-level inventory without looking at
\* data['inventory'] (the second half of the test on line 101 left out).
create_overwrites(validated) ==
    LET data == validated["data"]
        d1 == IF TruthyStr(validated, "inventory")
                THEN Put(data, "inventory", validated["inventory"])
                ELSE data
        d2 == IF ~TruthyDict(d1, "vars") THEN Put(d1, "vars", EmptyDict) ELSE d1
    IN  Put(validated, "data", d2)

\* CreateExecutionTemplateSerializer.create, lines 97-106: validated_data as
\* it is handed to super().create().
create(validated) ==
    LET data == validated["data"]
        d1 == IF TruthyStr(validated, "inventory") /\ ~TruthyStr(data, "inventory")
                THEN Put(data, "inventory", validated["inventory"])
                ELSE data
        d2 == IF ~TruthyDict(d1, "vars") THEN Put(d1, "vars", EmptyDict) ELSE d1
    IN  Put(validated, "data", d2)

\* Optional keys of a dict: every way of supplying some of them.
WithOptional(base, key, values) ==
    {base} \cup {Put(base, key, v) : v \in values}

InventoryValues == {"", "inv1", "inv2"}
VarsValues == {EmptyDict, [verbose |-> "2"], [limit |-> "web", verbose |-> "1"]}

\* The validated payloads of the two branches of data (lines 54-71), with the
\* optional keys create() looks at.
ETData ==
    LET bases == {[playbook |-> "site.yml"],
                  [group |-> "all", module |-> "ping", args |-> ""]}
        withInv == UNION {WithOptional(b, "inventory", InventoryValues) : b \in bases}
    IN  UNION {WithOptional(d, "vars", VarsValues) : d \in withInv}

ETValidated ==
    LET bases == {[name |-> "deploy",
                   kind |-> IF "playbook" \in DOMAIN d THEN "Task" ELSE "Module",
                   data |-> d] : d \in ETData}
    IN  UNION {WithOptional(b, "inventory", InventoryValues) : b \in bases}

\* POST of a new template: create() runs on the validated data.
ETCreate ==
    /\ \E validated \in ETValidated :
        /\ etReq' = validated
        /\ etOut' = create(validated)
    /\ UNCHANGED notET

NextET == ETCreate

SpecET == Init /\ [][NextET]_vars

\* C6 as stated: a supplied top-level inventory is copied into data when
\* data.inventory was not supplied; a supplied data.inventory is kept; vars
\* that were not supplied become {}; data.vars is always present.
C6_AsStated ==
    etReq # NoReq =>
        LET data == etReq.data
            out == etOut.data
        IN  /\ ("inventory" \in DOMAIN etReq /\ "inventory" \notin DOMAIN data)
                => ("inventory" \in DOMAIN out /\ out.inventory = etReq.inventory)
            /\ "inventory" \in DOMAIN data
                => ("inventory" \in DOMAIN out /\ out.inventory = data.inventory)
            /\ "vars" \notin DOMAIN data => out.vars = EmptyDict
            /\ "vars" \in DOMAIN out

\* C6 amended: "supplied" means supplied and not blank.  A non-blank top-level
\* inventory is copied into data when data.inventory is missing or blank; a
\* non-blank data.inventory is kept; without a non-blank top-level inventory
\* data.inventory is left as submitted; missing or empty vars become {} and
\* any other vars are kept; data.vars is always present; nothing else changes.
C6_CreateDefaults ==
    etReq # NoReq =>
        LET data == etReq.data
            out == etOut.data
            rest == {"inventory", "vars"}
        IN  /\ (TruthyStr(etReq, "inventory") /\ ~TruthyStr(data, "inventory"))
                => ("inventory" \in DOMAIN out /\ out.inventory = etReq.inventory)
            /\ TruthyStr(data, "inventory")
                => ("inventory" \in DOMAIN out /\ out.inventory = data.inventory)
            /\ ~TruthyStr(etReq, "inventory")
                => /\ ("inventory" \in DOMAIN out) = ("inventory" \in DOMAIN data)
                   /\ "inventory" \in DOMAIN data => out.inventory = data.inventory
            /\ ~TruthyDict(data, "vars") => out.vars = EmptyDict
            /\ TruthyDict(data, "vars") => out.vars = data.vars
            /\ "vars" \in DOMAIN out
            /\ DOMAIN out \ rest = DOMAIN data \ rest
            /\ \A k \in DOMAIN data \ rest : out[k] = data[k]
            /\ \A k \in DOMAIN etReq \ {"data"} : etOut[k] = etReq[k]

C6_Witness ==
    /\ etReq # NoReq
    /\ TruthyStr(etReq, "inventory")
    /\ etReq.inventory = "inv1"
    /\ "inventory" \notin DOMAIN etReq.data
    /\ "vars" \notin DOMAIN etReq.data
    /\ etOut.data.inventory = "inv1"
    /\ etOut.data.vars = EmptyDict

(***************************************************************************)
(* Redaction of the arguments payloads                                     *)
(***************************************************************************)

\* The value that replaces a hidden argument's value.
RedactionMarker == "[~~ENCRYPTED~~]"

\* HiddenArgumentsEnum.hide_values(entries): in place, the value of every
\* key that is a hidden name becomes the marker.
hide_values(entries) ==
    [k \in DOMAIN entries |-> IF k \in hidden THEN RedactionMarker ELSE entries[k]]

\* to_representation that returns super()'s mapping as it is (line 40 left out).
to_representation_raw(representation) == representation

\* BaseAnsibleArgumentsSerializer.to_representation, lines 38-41, from the
\* mapping super().to_representation(instance) returned.
to_representation(representation) == hide_values(representation)

ArgValues == {"secret", "bob", RedactionMarker}

\* Every mapping from some of the argument names to values.
Representations ==
    UNION {[keys -> ArgValues] : keys \in SUBSET ArgNames}

\* The process starts with some set of hidden names configured.
InitHide ==
    /\ PTInit /\ ETInit /\ ACLInit /\ USInit
    /\ hidden \in SUBSET ArgNames
    /\ repIn = NoReq
    /\ rep = NoReq

\* An arguments payload is represented.
ToRepresentation ==
    /\ \E representation \in Representations :
        /\ repIn' = representation
        /\ rep' = to_representation(representation)
    /\ UNCHANGED <<hidden, notHide>>

NextHide == ToRepresentation

SpecHide == InitHide /\ [][NextHide]_vars

\* C8: the representation of an arguments payload has the keys super()
\* returned; every hidden key carries the marker; every other key carries its
\* value unchanged; with no hidden key present nothing changes; and applying
\* hide_values to it again changes nothing.
C8_HideValues ==
    repIn # NoReq =>
        /\ DOMAIN rep = DOMAIN repIn
        /\ \A k \in DOMAIN repIn \cap hidden : rep[k] = RedactionMarker
        /\ \A k \in DOMAIN repIn \ hidden : rep[k] = repIn[k]
        /\ (DOMAIN repIn \cap hidden = {}) => rep = repIn
        /\ hide_values(rep) = rep

C8_Witness ==
    /\ repIn # NoReq
    /\ hidden = {"password", "private_key"}
    /\ DOMAIN repIn = {"password", "user", "private_key"}
    /\ repIn["password"] = "secret"
    /\ repIn["user"] = "bob"
    /\ rep["password"] = RedactionMarker
    /\ rep["private_key"] = RedactionMarker
    /\ rep["user"] = "bob"

(***************************************************************************)
(* ACLPermission                                                           *)
(***************************************************************************)

Roles == {"EDITOR", "MASTER"}

User(id) == [id |-> id, model |-> "User"]
UserGroup(id) == [id |-> id, model |-> "UserGroup"]

Returned(v) == [value |-> v]
Raised(e) == [raises |-> e]

\* ACLPermission.member (getter), lines 23-28.  None has no attribute id.
member(p) ==
    IF p.user # None THEN Returned(p.user.id)
    ELSE IF p.uagroup # None THEN Returned(p.uagroup.id)
    ELSE Raised("AttributeError")

\* ACLPermission.member_type (getter), lines 34-38.
member_type(p) == IF p.user # None THEN "user" ELSE "team"

\* ACLPermission.member (setter), lines 30-32: pass.
member_setter(p, value) == p

\* ACLPermission.member_type (setter), lines 40-42: pass.
member_type_setter(p, value) == p

\* A foreign key declared on_delete=SET_NULL: the row stays, the column is NULL.
on_delete_set_null(rows, column, id) ==
    [pk \in DOMAIN rows |->
        IF rows[pk] # NoRow /\ rows[pk][column] # None /\ rows[pk][column].id = id
            THEN [rows[pk] EXCEPT ![column] = None]
            ELSE rows[pk]]

\* on_delete=models.CASCADE on uagroup and user, lines 18-21: the rows that
\* reference the deleted identity are deleted with it.
on_delete(rows, column, id) ==
    [pk \in DOMAIN rows |->
        IF rows[pk] # NoRow /\ rows[pk][column] # None /\ rows[pk][column].id = id
            THEN NoRow
            ELSE rows[pk]]

\* A grant creates the row with exactly one of the two relations set.
Grant ==
    /\ \E pk \in DOMAIN perms, role \in Roles :
        /\ perms[pk] = NoRow
        /\ \/ \E u \in users :
                perms' = [perms EXCEPT ![pk] =
                            [role |-> role, user |-> User(u), uagroup |-> None]]
           \/ \E g \in groups :
                perms' = [perms EXCEPT ![pk] =
                            [role |-> role, user |-> None, uagroup |-> UserGroup(g)]]
    /\ UNCHANGED <<users, groups, aclCall, notACL>>

\* A revoke deletes the row.
Revoke ==
    /\ \E pk \in DOMAIN perms :
        /\ perms[pk] # NoRow
        /\ perms' = [perms EXCEPT ![pk] = NoRow]
    /\ UNCHANGED <<users, groups, aclCall, notACL>>

\* permission.member = value
SetMember ==
    /\ \E pk \in DOMAIN perms, value \in AllUsers \cup AllGroups :
        /\ perms[pk] # NoRow
        /\ perms' = [perms EXCEPT ![pk] = member_setter(perms[pk], value)]
        /\ aclCall' = [setter |-> "member", pk |-> pk, value |-> value]
    /\ UNCHANGED <<users, groups, notACL>>

\* permission.member_type = value
SetMemberType ==
    /\ \E pk \in DOMAIN perms, value \in {"user", "team"} :
        /\ perms[pk] # NoRow
        /\ perms' = [perms EXCEPT ![pk] = member_type_setter(perms[pk], value)]
        /\ aclCall' = [setter |-> "member_type", pk |-> pk, value |-> value]
    /\ UNCHANGED <<users, groups, notACL>>

\* A user is deleted.
DeleteUser ==
    /\ \E u \in users :
        /\ users' = users \ {u}
        /\ perms' = on_delete(perms, "user", u)
    /\ UNCHANGED <<groups, aclCall, notACL>>

\* A user group is deleted.
DeleteGroup ==
    /\ \E g \in groups :
        /\ groups' = groups \ {g}
        /\ perms' = on_delete(perms, "uagroup", g)
    /\ UNCHANGED <<users, aclCall, notACL>>

\* A user or a group is created.
AddUser ==
    /\ \E u \in AllUsers \ users : users' = users \cup {u}
    /\ UNCHANGED <<groups, perms, aclCall, notACL>>

AddGroup ==
    /\ \E g \in AllGroups \ groups : groups' = groups \cup {g}
    /\ UNCHANGED <<users, perms, aclCall, notACL>>

NextACL ==
    \/ Grant \/ Revoke \/ SetMember \/ SetMemberType
    \/ DeleteUser \/ DeleteGroup \/ AddUser \/ AddGroup

SpecACL == Init /\ [][NextACL]_vars

Rows == {perms[pk] : pk \in {k \in DOMAIN perms : perms[k] # NoRow}}

\* C4: every ACLPermission row has exactly one of user / uagroup set;
\* member_type is "user" exactly when user is set and "team" otherwise; member
\* returns the id of the identity that is set.
C4_ExactlyOneOwner ==
    \A p \in Rows :
        /\ (p.user # None) # (p.uagroup # None)
        /\ (member_type(p) = "user") = (p.user # None)
        /\ (member_type(p) = "team") = (p.user = None)
        /\ p.user # None => member(p) = Returned(p.user.id)
        /\ p.user = None => member(p) = Returned(p.uagroup.id)

C4_Witness ==
    /\ aclCall # None
    /\ aclCall.setter = "member"
    /\ perms[aclCall.pk] # NoRow
    /\ perms[aclCall.pk].user = None
    /\ member_type(perms[aclCall.pk]) = "team"
    /\ member(perms[aclCall.pk]) = Returned(2)
    /\ aclCall.value = 1
    /\ \E p \in Rows : member_type(p) = "user" /\ member(p) = Returned(1)
    /\ Cardinality(users) = 1

(***************************************************************************)
(* UserSettings: the data property over the settings blob                  *)
(***************************************************************************)

\* Python values that JSON has a form for.  A str is the sequence of its
\* characters; a dict is the sequence of its items in insertion order.
JNull == [t |-> "null"]
JBool(b) == [t |-> "bool", v |-> b]
JInt(n) == [t |-> "int", v |-> n]
JStr(chars) == [t |-> "str", v |-> chars]
JList(items) == [t |-> "list", v |-> items]
JDict(items) == [t |-> "dict", v |-> items]
Item(key, value) == [k |-> key, v |-> value]

Digits == <<"0", "1", "2", "3", "4", "5", "6", "7", "8", "9">>

RECURSIVE NatChars(_)
NatChars(n) ==
    IF n < 10 THEN <<Digits[n + 1]>>
    ELSE NatChars(n \div 10) \o <<Digits[(n % 10) + 1]>>

IntChars(n) == IF n < 0 THEN <<"-">> \o NatChars(-n) ELSE NatChars(n)

\* json.dumps of a str: quoted, with quote and backslash escaped.
EscapeChar(c) ==
    IF c = "\"" THEN <<"\\", "\"">>
    ELSE IF c = "\\" THEN <<"\\", "\\">>
    ELSE <<c>>

RECURSIVE EscapeChars(_)
EscapeChars(chars) ==
    IF chars = <<>> THEN <<>>
    ELSE EscapeChar(Head(chars)) \o EscapeChars(Tail(chars))

StrChars(chars) == <<"\"">> \o EscapeChars(chars) \o <<"\"">>

\* json.dumps(value), line 66, with the default separators ", " and ": ".
RECURSIVE dumps(_), DumpItems(_), DumpPairs(_)
dumps(o) ==
    CASE o.t = "null" -> <<"n", "u", "l", "l">>
      [] o.t = "bool" -> IF o.v THEN <<"t", "r", "u", "e">>
                                ELSE <<"f", "a", "l", "s", "e">>
      [] o.t = "int" -> IntChars(o.v)
      [] o.t = "str" -> StrChars(o.v)
      [] o.t = "list" -> <<"[">> \o DumpItems(o.v) \o <<"]">>
      [] o.t = "dict" -> <<"{">> \o DumpPairs(o.v) \o <<"}">>

DumpItems(items) ==
    IF items = <<>> THEN <<>>
    ELSE dumps(Head(items)) \o
         (IF Len(items) > 1 THEN <<",", " ">> \o DumpItems(Tail(items)) ELSE <<>>)

DumpPairs(items) ==
    IF items = <<>> THEN <<>>
    ELSE StrChars(Head(items).k) \o <<":", " ">> \o dumps(Head(items).v) \o
         (IF Len(items) > 1 THEN <<",", " ">> \o DumpPairs(Tail(items)) ELSE <<>>)

\* json.loads(s), line 62: a recursive-descent reading of the characters.
\* Each Parse operator returns the value read and the index after it.
At(s, i) == IF i \in DOMAIN s THEN s[i] ELSE "<eof>"

RECURSIVE SkipWs(_, _)
SkipWs(s, i) == IF At(s, i) = " " THEN SkipWs(s, i + 1) ELSE i

DigitValue(c) == (CHOOSE d \in DOMAIN Digits : Digits[d] = c) - 1

IsDigit(c) == \E d \in DOMAIN Digits : Digits[d] = c

RECURSIVE ParseNat(_, _, _)
ParseNat(s, i, acc) ==
    IF IsDigit(At(s, i)) THEN ParseNat(s, i + 1, 10 * acc + DigitValue(s[i]))
    ELSE [v |-> acc, i |-> i]

RECURSIVE ParseString(_, _, _)
ParseString(s, i, acc) ==
    IF At(s, i) = "\"" THEN [v |-> acc, i |-> i + 1]
    ELSE IF At(s, i) = "\\" THEN ParseString(s, i + 2, Append(acc, At(s, i + 1)))
    ELSE ParseString(s, i + 1, Append(acc, At(s, i)))

JSONDecodeError == [t |-> "JSONDecodeError"]

RECURSIVE ParseValue(_, _), ParseItems(_, _, _), ParsePairs(_, _, _)
ParseValue(s, i) ==
    LET j == SkipWs(s, i)
        c == At(s, j)
    IN  CASE c = "n" -> [v |-> JNull, i |-> j + 4]
          [] c = "t" -> [v |-> JBool(TRUE), i |-> j + 4]
          [] c = "f" -> [v |-> JBool(FALSE), i |-> j + 5]
          [] c = "\"" -> LET r == ParseString(s, j + 1, <<>>)
                         IN  [v |-> JStr(r.v), i |-> r.i]
          [] c = "-" -> LET r == ParseNat(s, j + 1, 0)
                        IN  [v |-> JInt(-r.v), i |-> r.i]
          [] IsDigit(c) -> LET r == ParseNat(s, j, 0)
                           IN  [v |-> JInt(r.v), i |-> r.i]
          [] c = "[" -> IF At(s, SkipWs(s, j + 1)) = "]"
                            THEN [v |-> JList(<<>>), i |-> SkipWs(s, j + 1) + 1]
                            ELSE ParseItems(s, j + 1, <<>>)
          [] c = "{" -> IF At(s, SkipWs(s, j + 1)) = "}"
                            THEN [v |-> JDict(<<>>), i |-> SkipWs(s, j + 1) + 1]
                            ELSE ParsePairs(s, j + 1, <<>>)
          [] OTHER -> [v |-> JSONDecodeError, i |-> Len(s) + 1]

ParseItems(s, i, acc) ==
    LET r == ParseValue(s, i)
        k == SkipWs(s, r.i)
    IN  IF At(s, k) = "," THEN ParseItems(s, k + 1, Append(acc, r.v))
        ELSE [v |-> JList(Append(acc, r.v)), i |-> k + 1]

ParsePairs(s, i, acc) ==
    LET key == ParseString(s, SkipWs(s, i) + 1, <<>>)
        colon == SkipWs(s, key.i)
        val == ParseValue(s, colon + 1)
        k == SkipWs(s, val.i)
    IN  IF At(s, k) = "," THEN ParsePairs(s, k + 1, Append(acc, Item(key.v, val.v)))
        ELSE [v |-> JDict(Append(acc, Item(key.v, val.v))), i |-> k + 1]

loads(s) == ParseValue(s, 1).v

\* A setter that stores str(value)-like text: the value's strings unescaped.
data_setter_unescaped(value) ==
    IF value.t = "str" THEN <<"\"">> \o value.v \o <<"\"">> ELSE dumps(value)

\* UserSettings.data (getter), lines 60-62.
data_getter(blob) == loads(blob)

\* UserSettings.data (setter), lines 64-66: the new blob.
data_setter(value) == dumps(value)

\* UserSettings.data (deleter), lines 68-70: the new blob.
data_deleter(blob) == <<"{", "}">>

\* UserSettings.get_settings_copy, lines 57-58.
get_settings_copy(blob) == data_getter(blob)

\* The structured values written through data.
MaxLen == 2
JKeys == {<<"a">>, <<"k", "\"">>}
Scalars == {JNull, JBool(TRUE), JInt(0), JInt(-12), JStr(<<"a">>), JStr(<<"\"", "\\">>)}

SeqsUpTo(S, n) == UNION {[1..m -> S] : m \in 0..n}

\* Dicts over the keys, in either insertion order, with values from S.
DictsOver(S, n) ==
    {JDict(items) : items \in
        {q \in SeqsUpTo({Item(k, x) : k \in JKeys, x \in S}, n) :
            \A a, b \in DOMAIN q : a # b => q[a].k # q[b].k}}

ListsOver(S, n) == {JList(items) : items \in SeqsUpTo(S, n)}

Flat == ListsOver(Scalars, MaxLen) \cup DictsOver(Scalars, MaxLen)

Small == ListsOver(Scalars, 1) \cup DictsOver({JNull, JStr(<<"\"", "\\">>)}, 1)

Nested == ListsOver(Small, 1) \cup DictsOver(Small, 1)

JValues == Scalars \cup Flat \cup Nested

\* settings.data = value
SetData ==
    /\ \E value \in JValues :
        /\ settings' = data_setter(value)
        /\ usOp' = [op |-> "set", value |-> value]
    /\ got' = NotRead
    /\ UNCHANGED notUS

\* del settings.data
DelData ==
    /\ settings' = data_deleter(settings)
    /\ usOp' = [op |-> "del"]
    /\ got' = NotRead
    /\ UNCHANGED notUS

\* settings.get_settings_copy()
GetSettingsCopy ==
    /\ got' = get_settings_copy(settings)
    /\ UNCHANGED <<settings, usOp, notUS>>

NextUS == SetData \/ DelData \/ GetSettingsCopy

SpecUS == Init /\ [][NextUS]_vars

\* C9: after a value was written through data, reading data gives an equal
\* value; after data was deleted the blob is "{}" and data reads as the empty
\* object, whatever was stored before; a fresh row reads as the empty object.
C9_TypedView ==
    LET expected == IF usOp.op = "set" THEN usOp.value ELSE JDict(<<>>)
    IN  /\ data_getter(settings) = expected
        /\ got # NotRead => got = expected
        /\ usOp.op = "del" => settings = <<"{", "}">>

C9_Witness ==
    /\ usOp.op = "set"
    /\ usOp.value = JDict(<<Item(<<"k", "\"">>, JList(<<JStr(<<"\"", "\\">>)>>))>>)
    /\ got = usOp.value

====
